---------------------------- MODULE Spec2Model ----------------------------
(***************************************************************************)
(* ranwhen.py: one run of the script, from the captured output of          *)
(* `last -R -F reboot` to the exit of the process.                         *)
(*                                                                         *)
(* Time.  A datetime is the number of seconds since 00:00:00 of            *)
(* Wednesday January 30 2013 (the naive local clock of the script: no time *)
(* zone, every day has 86400 seconds); a timedelta is a number of seconds. *)
(* A line of the log is modelled by what the regular expression and        *)
(* strptime make of it: either no match, or the two timestamps it carries. *)
(* Lines that match the pattern but hold no valid date are not in the      *)
(* input domain.  Escape sequences and glyphs are not modelled: a printed  *)
(* block is recorded by its name, a printed bar by its levels.             *)
(***************************************************************************)
EXTENDS Integers, Sequences, FiniteSets, TLC

VARIABLES
    lines,                  \* output.splitlines() of the log source
    time_spans,             \* list of { "from", "to" }
    time_spans_merged,      \* flag of the merge loop
    latest_time,            \* period end (midnight)
    earliest_time,          \* period start (midnight)
    time_slots,             \* list of { "time", "time_in_slot" }
    aggregated_time_slots,  \* 48 buckets, one per half hour of the day
    total_time,
    number_of_days,
    histogram,              \* the four printed histogram rows (levels)
    current_time,           \* loop variable of the month views
    current_month,
    bars,                   \* the printed calendar bars (levels), in print order
    out,                    \* blocks printed to standard output, in order
    pc,                     \* position of the script
    error,                  \* exception that ended the run, "" if none
    traceback,              \* source line that raised it, 0 if none
    exit_status             \* -1 while running

vars == <<lines, time_spans, time_spans_merged, latest_time, earliest_time,
          time_slots, aggregated_time_slots, total_time, number_of_days,
          histogram, current_time, current_month, bars, out, pc, error,
          traceback, exit_status>>

----------------------------------------------------------------------------
(* Bounds of the input *)

MaxLines == 3

Record(f, t) == [kind |-> "reboot", from |-> f, to |-> t]

NoMatch == [kind |-> "other", from |-> 0, to |-> 0]

\* The records a log may hold (seconds since Jan 30 00:00:00):
\*   Jan 30 00:00:00 - Jan 30 00:20:00
\*   Jan 30 00:20:00 - Jan 31 00:00:00
\*   Jan 30 00:00:00 - Jan 31 00:00:00
\*   Jan 31 00:00:00 - Feb  1 00:20:00
\*   Feb  1 00:20:00 - Feb  1 00:40:00
\*   Jan 30 00:20:00 - Jan 30 00:20:00   (a boot of duration 00:00)
\*   Jan 31 00:00:00 - Jan 30 00:20:00   (the clock was set back)
RebootLines ==
    {Record(0, 1200), Record(1200, 86400), Record(0, 86400), Record(86400, 174000),
     Record(174000, 175200), Record(1200, 1200), Record(86400, 1200)}

LineValues == {NoMatch} \cup RebootLines

RECURSIVE SeqsUpTo(_, _)
SeqsUpTo(S, n) ==
    IF n = 0 THEN {<<>>}
    ELSE LET shorter == SeqsUpTo(S, n - 1)
         IN  shorter \cup {Append(s, x) : s \in {q \in shorter : Len(q) = n - 1}, x \in S}

----------------------------------------------------------------------------
(* Granularities *)

day == 86400

half_hour == 1800

half_hours_in_day == (2 * day + half_hour) \div (2 * half_hour)

Min(a, b) == IF a <= b THEN a ELSE b

Max(a, b) == IF a >= b THEN a ELSE b

\* Python's round() of the non-negative rational n / d: ties go to the even integer
PyRound(n, d) ==
    LET q == n \div d
        r == n % d
    IN  IF 2 * r < d THEN q
        ELSE IF 2 * r > d THEN q + 1
        ELSE IF q % 2 = 0 THEN q ELSE q + 1

\* datetime.replace(hour = 0, minute = 0, second = 0)
Midnight(t) == t - (t % day)

Hour(t) == (t % day) \div 3600

Minute(t) == (t % 3600) \div 60

\* datetime.month and datetime.day of the dates from January 30 2013 on
Month(t) == IF t \div day <= 1 THEN 1 ELSE 2

DayOfMonth(t) == IF t \div day <= 1 THEN 30 + (t \div day) ELSE (t \div day) - 1

----------------------------------------------------------------------------
(* parse_line *)

Matches(line) == line.kind = "reboot"

parse_line(line) == [from |-> line.from, to |-> line.to]

ParseAll(ls) ==
    LET matching == SelectSeq(ls, Matches)
    IN  [k \in 1..Len(matching) |-> parse_line(matching[k])]

(* time_overlap *)

time_overlap(time_span_1, time_span_2) ==
    IF Max(time_span_1.from, time_span_2.from) >= Min(time_span_1.to, time_span_2.to)
    THEN 0
    ELSE Min(time_span_1.to, time_span_2.to) - Max(time_span_1.from, time_span_2.from)

----------------------------------------------------------------------------
(* Merge loop: one pass of the inner while, from position i (1-based) *)

RECURSIVE MergeScan(_, _, _, _)
MergeScan(spans, i, new, merged) ==
    IF i > Len(spans) THEN [spans |-> new, merged |-> merged]
    ELSE IF i < Len(spans) /\ time_overlap(spans[i], spans[i + 1]) > 0
         THEN MergeScan(spans, i + 2,
                        Append(new, [from |-> Min(spans[i].from, spans[i + 1].from),
                                     to   |-> Max(spans[i].to, spans[i + 1].to)]),
                        TRUE)
         ELSE MergeScan(spans, i + 1, Append(new, spans[i]), merged)

\* The same pass with the flag never raised
MergePassFlagLost(spans) == [MergeScan(spans, 1, <<>>, FALSE) EXCEPT !.merged = FALSE]

MergePass(spans) == MergeScan(spans, 1, <<>>, FALSE)

\* The whole loop: passes until one makes no merge
RECURSIVE MergeLoop(_)
MergeLoop(spans) ==
    LET pass == MergePass(spans)
    IN  IF pass.merged THEN MergeLoop(pass.spans) ELSE pass.spans

----------------------------------------------------------------------------
(* Slot aggregation *)

TimeSlot(t) == [from |-> t, to |-> t + half_hour]

RECURSIVE SumOverlap(_, _, _)
SumOverlap(time_slot, spans, k) ==
    IF k > Len(spans) THEN 0
    ELSE time_overlap(time_slot, spans[k]) + SumOverlap(time_slot, spans, k + 1)

\* The inner for loop with = in place of +=
TimeInSlotLast(time_slot, spans) ==
    IF spans = <<>> THEN 0 ELSE time_overlap(time_slot, spans[Len(spans)])

TimeInSlot(time_slot, spans) == SumOverlap(time_slot, spans, 1)

half_hour_index(t) == Hour(t) * 2 + (IF Minute(t) >= 30 THEN 1 ELSE 0)

\* The variables the slot loop assigns, at line 226
SlotLoopStart(latest) ==
    [current_time          |-> latest,
     time_slots            |-> <<>>,
     aggregated_time_slots |-> [k \in 1..half_hours_in_day |-> 0],
     total_time            |-> 0]

\* Lines 228-236: one iteration of the slot loop
SlotLoopBody(st, spans) ==
    LET t   == st.current_time - half_hour
        tis == TimeInSlot(TimeSlot(t), spans)
    IN  [current_time          |-> t,
         time_slots            |-> Append(st.time_slots, [time |-> t, time_in_slot |-> tis]),
         aggregated_time_slots |-> [st.aggregated_time_slots
                                       EXCEPT ![half_hour_index(t) + 1] = @ + tis],
         total_time            |-> st.total_time + tis]

\* Line 227: while current_time > earliest_time
RECURSIVE SlotLoop(_, _, _)
SlotLoop(st, earliest, spans) ==
    IF st.current_time > earliest
    THEN SlotLoop(SlotLoopBody(st, spans), earliest, spans)
    ELSE st

Reverse(s) == [k \in 1..Len(s) |-> s[Len(s) + 1 - k]]

----------------------------------------------------------------------------
(* Level quantization *)

level_characters == <<"0/8", "1/8", "2/8", "3/8", "4/8", "5/8", "6/8", "7/8", "8/8">>

number_of_lines == 4

histogram_levels == Len(level_characters) - 1

bar_levels == Len(level_characters) - 2

RECURSIVE SeqMinFrom(_, _)
SeqMinFrom(s, k) == IF k = Len(s) THEN s[k] ELSE Min(s[k], SeqMinFrom(s, k + 1))

RECURSIVE SeqMaxFrom(_, _)
SeqMaxFrom(s, k) == IF k = Len(s) THEN s[k] ELSE Max(s[k], SeqMaxFrom(s, k + 1))

\* min() and max() of a non-empty list
SeqMin(s) == SeqMinFrom(s, 1)

SeqMax(s) == SeqMaxFrom(s, 1)

\* min_level = max_level (lines 288-289): both are a bucket divided by the
\* same two non-zero divisors, so they are equal iff the two buckets are
UniformProfile(agg) == SeqMin(agg) = SeqMax(agg)

\* Lines 295-300, the level of the bucket v in the row index, given the least
\* and the greatest bucket.  The divisions by number_of_days and half_hour
\* cancel in the normalization, which is computed here exactly.
histogram_level(v, lo, hi, index) ==
    LET level == PyRound((v - lo) * (histogram_levels * number_of_lines), hi - lo)
                 - index * histogram_levels
    IN  Max(0, Min(histogram_levels, level))

format_histogram_line(agg, index) ==
    LET lo == SeqMin(agg)
        hi == SeqMax(agg)
    IN  [k \in 1..Len(agg) |-> histogram_level(agg[k], lo, hi, index)]

bar_level(time_in_slot) == PyRound(time_in_slot * bar_levels, half_hour)

InDay(slot, d) == slot.time >= d /\ slot.time < d + day

DaySlots(slots, d) == SelectSeq(slots, LAMBDA slot : InDay(slot, d))

DayBar(slots, d) ==
    LET mine == DaySlots(slots, d)
    IN  [k \in 1..Len(mine) |-> bar_level(mine[k].time_in_slot)]

----------------------------------------------------------------------------
(* The run *)

Init ==
    /\ lines \in SeqsUpTo(LineValues, MaxLines)
    /\ time_spans = <<>>
    /\ time_spans_merged = TRUE
    /\ latest_time = 0
    /\ earliest_time = 0
    /\ time_slots = <<>>
    /\ aggregated_time_slots = [k \in 1..half_hours_in_day |-> 0]
    /\ total_time = 0
    /\ number_of_days = 0
    /\ histogram = <<>>
    /\ current_time = 0
    /\ current_month = 0
    /\ bars = <<>>
    /\ out = <<>>
    /\ pc = "parse"
    /\ error = ""
    /\ traceback = 0
    /\ exit_status = -1

\* Lines 183-189: the parse loop and the exit when nothing parsed
Parse ==
    /\ pc = "parse"
    /\ time_spans' = ParseAll(lines)
    /\ IF time_spans' = <<>>
       THEN /\ pc' = "exited"
            /\ error' = "SystemExit: Error: 'last -R -F reboot' returned no parsable output"
            /\ traceback' = 189
            /\ exit_status' = 1
       ELSE /\ pc' = "merge"
            /\ UNCHANGED <<error, traceback, exit_status>>
    /\ UNCHANGED <<lines, time_spans_merged, latest_time, earliest_time, time_slots,
                   aggregated_time_slots, total_time, number_of_days, histogram,
                   current_time, current_month, bars, out>>

\* Lines 194-208: one iteration of the outer while of the merge
MergeStep ==
    /\ pc = "merge"
    /\ time_spans_merged
    /\ LET pass == MergePass(time_spans)
       IN  /\ time_spans' = pass.spans
           /\ time_spans_merged' = pass.merged
           /\ pc' = IF pass.merged THEN "merge" ELSE "period"
    /\ UNCHANGED <<lines, latest_time, earliest_time, time_slots,
                   aggregated_time_slots, total_time, number_of_days, histogram,
                   current_time, current_month, bars, out, error, traceback,
                   exit_status>>

\* Lines 212-216
ComputePeriod ==
    /\ pc = "period"
    /\ latest_time' = Midnight(time_spans[1].to) + day
    /\ earliest_time' = Midnight(time_spans[Len(time_spans)].from)
    /\ pc' = "aggregate"
    /\ UNCHANGED <<lines, time_spans, time_spans_merged, time_slots,
                   aggregated_time_slots, total_time, number_of_days, histogram,
                   current_time, current_month, bars, out, error, traceback,
                   exit_status>>

\* Lines 220-240: the slot loop and the reversal
Aggregate ==
    /\ pc = "aggregate"
    /\ LET r == SlotLoop(SlotLoopStart(latest_time), earliest_time, time_spans)
       IN  /\ time_slots' = Reverse(r.time_slots)
           /\ aggregated_time_slots' = r.aggregated_time_slots
           /\ total_time' = r.total_time
           /\ current_time' = r.current_time
    /\ pc' = "summary"
    /\ UNCHANGED <<lines, time_spans, time_spans_merged, latest_time, earliest_time,
                   number_of_days, histogram, current_month, bars, out, error,
                   traceback, exit_status>>

\* Lines 256-275: the period line, the total, the daily average
PrintSummary ==
    /\ pc = "summary"
    /\ number_of_days' = (latest_time - earliest_time) \div day
    /\ IF number_of_days' = 0
       THEN /\ out' = out \o <<"period", "total time running">>
            /\ pc' = "crashed"
            /\ error' = "ZeroDivisionError"
            /\ traceback' = 272
            /\ exit_status' = 1
       ELSE /\ out' = out \o <<"period", "total time running", "daily average">>
            /\ pc' = "histogram"
            /\ UNCHANGED <<error, traceback, exit_status>>
    /\ UNCHANGED <<lines, time_spans, time_spans_merged, latest_time, earliest_time,
                   time_slots, aggregated_time_slots, total_time, histogram,
                   current_time, current_month, bars>>

\* Lines 279-327: the histogram, then the set-up of the month views
PrintHistogram ==
    /\ pc = "histogram"
    /\ IF UniformProfile(aggregated_time_slots)
       THEN /\ out' = out \o <<"histogram header">>
            /\ pc' = "crashed"
            /\ error' = "ZeroDivisionError"
            /\ traceback' = 297
            /\ exit_status' = 1
            /\ UNCHANGED <<histogram, current_time, current_month>>
       ELSE /\ histogram' = <<format_histogram_line(aggregated_time_slots, 3),
                              format_histogram_line(aggregated_time_slots, 2),
                              format_histogram_line(aggregated_time_slots, 1),
                              format_histogram_line(aggregated_time_slots, 0)>>
            /\ out' = out \o <<"histogram header", "histogram rows", "histogram footer">>
            /\ current_time' = latest_time
            /\ current_month' = 0
            /\ pc' = "calendar"
            /\ UNCHANGED <<error, traceback, exit_status>>
    /\ UNCHANGED <<lines, time_spans, time_spans_merged, latest_time, earliest_time,
                   time_slots, aggregated_time_slots, total_time, number_of_days, bars>>

\* Lines 329-382: one iteration of the loop of the month views
PrintDay ==
    /\ pc = "calendar"
    /\ current_time > earliest_time
    /\ current_time' = current_time - day
    /\ LET month_changed == Month(current_time') # current_month
           heading == IF month_changed THEN <<"month heading">> ELSE <<>>
           bar     == DayBar(time_slots, current_time')
           footer  == IF DayOfMonth(current_time') = 1 \/ current_time' <= earliest_time
                      THEN <<"month footer">> ELSE <<>>
       IN  /\ current_month' = IF month_changed THEN Month(current_time') ELSE current_month
           /\ IF \E k \in 1..Len(bar) : bar[k] > Len(level_characters) - 1
              THEN /\ out' = out \o heading
                   /\ pc' = "crashed"
                   /\ error' = "IndexError"
                   /\ traceback' = 366
                   /\ exit_status' = 1
                   /\ UNCHANGED bars
              ELSE /\ out' = out \o heading \o <<"day">> \o footer
                   /\ bars' = Append(bars, bar)
                   /\ UNCHANGED <<pc, error, traceback, exit_status>>
    /\ UNCHANGED <<lines, time_spans, time_spans_merged, latest_time, earliest_time,
                   time_slots, aggregated_time_slots, total_time, number_of_days,
                   histogram>>

\* Line 386 and the end of the script
Finish ==
    /\ pc = "calendar"
    /\ ~(current_time > earliest_time)
    /\ pc' = "done"
    /\ exit_status' = 0
    /\ UNCHANGED <<lines, time_spans, time_spans_merged, latest_time, earliest_time,
                   time_slots, aggregated_time_slots, total_time, number_of_days,
                   histogram, current_time, current_month, bars, out, error,
                   traceback>>

Next ==
    \/ Parse
    \/ MergeStep
    \/ ComputePeriod
    \/ Aggregate
    \/ PrintSummary
    \/ PrintHistogram
    \/ PrintDay
    \/ Finish

Spec == Init /\ [][Next]_vars

----------------------------------------------------------------------------
(* Stages of the run *)

MergerDone == ~time_spans_merged

PeriodDone == pc \in {"aggregate", "summary", "histogram", "calendar", "done", "crashed"}

AggregatorDone == pc \in {"summary", "histogram", "calendar", "done", "crashed"}

HistogramReached ==
    \/ pc \in {"calendar", "done"}
    \/ pc = "crashed" /\ traceback \in {297, 366}

Stopped == pc \in {"done", "exited", "crashed"}

SomeRecordParsed == ParseAll(lines) # <<>>

(* Sums *)

RECURSIVE SumRange(_, _, _)
SumRange(f, lo, hi) ==
    IF lo > hi THEN 0
    ELSE IF lo = hi THEN f[lo]
    ELSE LET mid == (lo + hi) \div 2
         IN  SumRange(f, lo, mid) + SumRange(f, mid + 1, hi)

Sum(s) == SumRange(s, 1, Len(s))

Overlap(a, b) == Max(a.from, b.from) < Min(a.to, b.to)

Period == [from |-> earliest_time, to |-> latest_time]

----------------------------------------------------------------------------
(* C1: once the merge loop has ended, no two intervals of the list overlap, *)
(* at any pair of positions, adjacent or not.                               *)
C1_NoTwoOverlap ==
    MergerDone =>
        \A i, j \in 1..Len(time_spans) :
            i # j => ~Overlap(time_spans[i], time_spans[j])

(* C2: merging is idempotent: the list the merge loop ended with is the     *)
(* merge of the parsed list, a further pass over it merges nothing and      *)
(* returns it unchanged, and so does a further run of the whole loop.       *)
C2_MergeIdempotent ==
    MergerDone =>
        /\ time_spans = MergeLoop(ParseAll(lines))
        /\ MergePass(time_spans) = [spans |-> time_spans, merged |-> FALSE]
        /\ MergeLoop(time_spans) = time_spans

\* three parsed records that took two merging passes to become one
C2_Witness ==
    /\ MergerDone
    /\ Len(ParseAll(lines)) = 3
    /\ Len(time_spans) = 1
    /\ LET first == MergePass(ParseAll(lines))
       IN  first.merged /\ Len(first.spans) = 2

(* C3: after the slot loop, the 48 buckets, the per-slot durations and      *)
(* total_time have the same sum, which is the total overlap of the merged   *)
(* intervals with the period.                                               *)
C3_SumsAgree ==
    AggregatorDone =>
        /\ Sum(aggregated_time_slots) = Sum([k \in 1..Len(time_slots) |->
                                                time_slots[k].time_in_slot])
        /\ Sum(aggregated_time_slots) = total_time
        /\ total_time = Sum([k \in 1..Len(time_spans) |->
                                time_overlap(time_spans[k], Period)])

\* several intervals, a period of more than one day, some running time
C3_Witness ==
    /\ AggregatorDone
    /\ Len(time_spans) >= 2
    /\ Len(time_slots) > half_hours_in_day
    /\ total_time > 0

(* C4: every slot holds between 0 and 30 minutes of running time, so its    *)
(* calendar bar level lies in 0..7.                                         *)
C4_SlotWithinWidth ==
    AggregatorDone =>
        \A k \in 1..Len(time_slots) :
            /\ 0 <= time_slots[k].time_in_slot
            /\ time_slots[k].time_in_slot <= half_hour
            /\ bar_level(time_slots[k].time_in_slot) \in 0..bar_levels

(* C5: when a record was parsed, the period is a whole number of days, at   *)
(* least one, and number_of_days is never zero or negative.                 *)
C5_PeriodAtLeastOneDay ==
    /\ PeriodDone =>
           /\ (latest_time - earliest_time) % day = 0
           /\ latest_time - earliest_time >= day
    /\ pc \in {"histogram", "calendar", "done", "crashed"} => number_of_days >= 1

(* C6: latest_time is the midnight after the greatest end of a merged       *)
(* interval, earliest_time the midnight of the least start, and every       *)
(* merged interval lies within the period.                                  *)
C6_PeriodBoundsSpans ==
    PeriodDone =>
        /\ latest_time = Midnight(SeqMax([k \in 1..Len(time_spans) |-> time_spans[k].to])) + day
        /\ earliest_time = Midnight(SeqMin([k \in 1..Len(time_spans) |-> time_spans[k].from]))
        /\ \A k \in 1..Len(time_spans) :
               /\ earliest_time <= time_spans[k].from
               /\ time_spans[k].to <= latest_time

(* C7: a run in which no line parsed prints nothing and ends with a         *)
(* message and a non-zero status; every other run prints the summary, the   *)
(* histogram and the calendar, in this order, and ends with status zero.    *)
SummaryBlock == <<"period", "total time running", "daily average">>

HistogramBlock == <<"histogram header", "histogram rows", "histogram footer">>

C7_ExitBehaviour ==
    /\ ~SomeRecordParsed => out = <<>>
    /\ Stopped /\ ~SomeRecordParsed => exit_status # 0 /\ error # ""
    /\ Stopped /\ SomeRecordParsed =>
           /\ exit_status = 0
           /\ Len(out) > 6
           /\ SubSeq(out, 1, 3) = SummaryBlock
           /\ SubSeq(out, 4, 6) = HistogramBlock
           /\ \A k \in 7..Len(out) : out[k] \in {"month heading", "day", "month footer"}
           /\ \E k \in 7..Len(out) : out[k] = "day"

(* C8: no interval with from >= to is ever in the list of intervals.        *)
C8_NoDegenerateSpan ==
    \A k \in 1..Len(time_spans) : time_spans[k].from < time_spans[k].to

(* C9: when all 48 buckets are equal, the histogram is printed without a    *)
(* crash, every level of its four rows in 0..8.                             *)
C9_UniformProfileQuantized ==
    HistogramReached /\ UniformProfile(aggregated_time_slots) =>
        /\ error # "ZeroDivisionError"
        /\ Len(histogram) = number_of_lines
        /\ \A r \in 1..Len(histogram) : \A k \in 1..Len(histogram[r]) :
               histogram[r][k] \in 0..histogram_levels

(* C10: after the slot loop and the reversal, time_slots holds exactly      *)
(* (latest_time - earliest_time) / 30 min points, the k-th (from 0) at      *)
(* earliest_time + k * 30 min.                                              *)
C10_SlotsExactAscending ==
    AggregatorDone =>
        /\ Len(time_slots) * half_hour = latest_time - earliest_time
        /\ \A k \in 1..Len(time_slots) :
               time_slots[k].time = earliest_time + (k - 1) * half_hour

============================================================================
